---------------------------- MODULE Spec2Model ----------------------------
(***************************************************************************)
(* Model of the thread-safe VLC media player adapter (VLCMediaPlayer) and  *)
(* of the playback worker threads it spawns, src/src/app/vlc_media_player.rs *)
(*                                                                         *)
(* The GUI thread calls new, set_src, play, pause and set_volume.  Every   *)
(* play() spawns a worker thread that owns a native player and polls the   *)
(* shared atomics is_playing, is_volume_changed and volume.  Each atomic   *)
(* load and store is one step, so that every interleaving of the GUI       *)
(* thread with the workers is explored.  The steps act on one shared       *)
(* memory in one total order: a load returns the last value stored, which  *)
(* is the strongest behaviour Ordering::Relaxed allows.  Calls on the      *)
(* native player are local to the worker that owns it and are recorded in  *)
(* `native`.                                                               *)
(*                                                                         *)
(* The GUI of src/src/app.rs (App::new, App::update and the callback of    *)
(* ehttp::fetch) is a second state machine, AppSpec, over its own          *)
(* variables.                                                              *)
(***************************************************************************)
EXTENDS Integers, Sequences, FiniteSets, TLC

VARIABLES
    is_playing,         \* VLCMediaPlayer.is_playing        (Arc<AtomicBool>)
    is_volume_changed,  \* VLCMediaPlayer.is_volume_changed (Arc<AtomicBool>)
    volume,             \* VLCMediaPlayer.volume            (Arc<AtomicI32>)
    url,                \* VLCMediaPlayer.url               (String)
    gui_pc,             \* position of the GUI thread inside an adapter call
    pc,                 \* pc[w]: position of worker w inside the spawned closure
    wurl,               \* wurl[w]: the closure's owned copy of the url
    wvol,               \* wvol[w]: the value returned by volume.load, <<>> if none
    native,             \* native[w]: what worker w's native player was told
    obs,                \* history of the adapter calls, for the properties
    download,           \* App.download            (Arc<Mutex<Download>>)
    stations,           \* App.stations: the url_resolved of each Station
    station_url,        \* App.station_url
    volume_on_slider,   \* App.volume_on_slider
    volume_before_mute, \* App.volume_before_mute
    playing_icon,       \* App.playing_icon
    media_player,       \* App.media_player: what the HtmlAudioElement was told
    fetches,            \* ehttp::fetch callbacks that have not run yet
    seen                \* history of the GUI's clicks, for the properties

shared == <<is_playing, is_volume_changed, volume, url>>
worker == <<pc, wurl, wvol, native>>
adapter == <<is_playing, is_volume_changed, volume, url, gui_pc, pc, wurl,
             wvol, native, obs>>
app == <<download, stations, station_url, volume_on_slider,
         volume_before_mute, playing_icon, media_player, fetches, seen>>
vars == <<is_playing, is_volume_changed, volume, url, gui_pc, pc, wurl, wvol,
          native, obs, download, stations, station_url, volume_on_slider,
          volume_before_mute, playing_icon, media_player, fetches, seen>>

----------------------------------------------------------------------------
(* Bounds and input sets *)

\* Number of play() calls explored, hence of worker threads ever spawned.
MaxWorkers == 2

\* Number of adapter calls (set_src, play, pause, set_volume) explored.
MaxCalls == 4

\* The volume range accepted by validate_volume.
MinVolume == 0
MaxVolume == 100

Workers == 1..MaxWorkers

\* Arguments given to new() and set_volume(): both ends of the range, a value
\* inside it, and the nearest values outside it.
VolumeInputs == {MinVolume - 1, MinVolume, 30, MaxVolume, MaxVolume + 1}

\* Arguments given to set_src().
UrlInputs == {"https://a", "https://b"}

\* The unwrapped calls of the closure's start-up, in program order.
StartStages == {"Instance::new", "MediaPlayer::new", "Media::new_location",
                "MediaPlayer::play"}

----------------------------------------------------------------------------
(* Pure functions and state functions *)

\* A validate_volume whose match has no lower end, as `..=100` would be.
ValidVolumeNoLowerEnd(v) == v <= MaxVolume

\* validate_volume returns its argument when it is in 0..=100 and panics
\* otherwise; ValidVolume is the first arm of its match.
ValidVolume(v) == v >= MinVolume /\ v <= MaxVolume

\* The states of the playback worker's state machine, by position in the
\* closure: start-up, the while loop, the two statements after it, the end.
WState(p) ==
    CASE p = "none" -> "NotSpawned"
      [] p = "Starting" -> "Starting"
      [] p \in {"poll", "check_volume", "load_volume", "apply_volume",
                "clear_flag"} -> "Playing"
      [] p \in {"stop", "store_false"} -> "Stopping"
      [] OTHER -> "Terminated"

Active(w) == WState(pc[w]) \in {"Starting", "Playing"}

ActiveWorkers == {w \in Workers : Active(w)}

Spawned == {w \in Workers : pc[w] # "none"}

\* The process is alive: the GUI (main) thread has not panicked.
Running == gui_pc \notin {"panicked_new", "panicked_set_volume"}

\* A native player nothing was done to.
NativeInit == [media |-> <<>>, playing |-> FALSE, volume |-> <<>>, stops |-> 0]

----------------------------------------------------------------------------
(* History variables.  obs records what the adapter was asked to do; no     *)
(* action's guard or effect on the program state reads it, except the       *)
(* count of calls that bounds the exploration.                              *)

\* The only active worker, when there is exactly one and it is in its loop.
SoloPlaying ==
    IF Cardinality(ActiveWorkers) = 1
          /\ \A w \in ActiveWorkers : WState(pc[w]) = "Playing"
      THEN CHOOSE w \in ActiveWorkers : TRUE
      ELSE 0

\* No set_volume is being observed.
WinNone == [w |-> 0, burst |-> 0, done |-> FALSE, moved |-> FALSE,
            iterated |-> FALSE, applied |-> <<>>]

\* The window opened by a set_volume call made while worker w is the only
\* active worker: burst counts the consecutive set_volume calls during
\* which w has stayed at the loop test (0 when it was elsewhere), done says
\* the call has returned, moved that w has entered the loop body since,
\* iterated that w has completed a loop iteration begun since, applied the
\* values w gave to the native player since the call began.
WinCall ==
    LET w0 == SoloPlaying IN
    IF w0 = 0 THEN WinNone
    ELSE [w |-> w0,
          burst |-> IF pc[w0] # "poll" THEN 0
                    ELSE IF obs.win.w = w0 /\ obs.win.burst > 0
                            /\ obs.win.done /\ ~obs.win.moved
                         THEN obs.win.burst + 1
                         ELSE 1,
          done |-> FALSE, moved |-> FALSE, iterated |-> FALSE,
          applied |-> <<>>]

\* The window after worker w's step from position pc[w] to position p.
WinStep(w, p) ==
    IF obs.win.w # w THEN obs.win
    ELSE IF WState(p) # "Playing" THEN WinNone
    ELSE IF pc[w] = "poll" /\ ~obs.win.done THEN [obs.win EXCEPT !.burst = 0]
    ELSE IF pc[w] = "poll" THEN [obs.win EXCEPT !.moved = TRUE]
    ELSE IF pc[w] = "apply_volume"
         THEN [obs.win EXCEPT !.applied = Append(@, wvol[w][1])]
    ELSE IF p = "poll" /\ obs.win.moved THEN [obs.win EXCEPT !.iterated = TRUE]
    ELSE obs.win

\* Nothing called yet.  calls counts the GUI calls and last_call names the
\* last one; armed says that a set_volume call returned while no worker was
\* starting or in its loop and that no play() has spawned a worker since;
\* heir is the worker spawned by the first play() after that, until it ends
\* its first test of is_volume_changed (0 when there is none).
ObsInit ==
    [calls |-> 0,
     last_call |-> "new",
     plays_since_pause |-> 0,
     sig |-> [w \in Workers |-> "none"],
     last_arg |-> <<>>,
     last_src |-> <<>>,
     play_src |-> [w \in Workers |-> <<>>],
     armed |-> FALSE,
     heir |-> 0,
     win |-> WinNone]

\* obs after a worker's step.  The heir stops being one when it ends its
\* first test of is_volume_changed, or ends before it made one.
ObsStep(w, p) ==
    [obs EXCEPT !.win = WinStep(w, p),
                !.heir = IF @ = w /\ (pc[w] = "check_volume"
                                        \/ WState(p) \notin {"Starting", "Playing"})
                           THEN 0 ELSE @]

----------------------------------------------------------------------------
(* The GUI, src/src/app.rs.  App plays through a web_sys HtmlAudioElement   *)
(* and holds no VLCMediaPlayer, so App and the adapter are two state        *)
(* machines over disjoint variables: the adapter's specification leaves    *)
(* App's variables as App::new made them, and App's specification leaves   *)
(* the adapter's variables as they were built.                              *)

\* Number of ehttp::fetch requests in flight at once that are explored.
MaxFetches == 2

\* The volume App::new gives to the slider and to volume_before_mute.
InitialVolume == 50

\* The ends of the slider, egui::Slider::new(volume_on_slider, 0..=100).
SliderMin == 0
SliderMax == 100

\* Values a press or drag on the slider sets: both ends and a value inside.
SliderInputs == {SliderMin, 30, SliderMax}

\* The two glyphs of playing_icon: U+25B6 (play) and U+23F8 (pause).
PlayGlyph == "play glyph"
PauseGlyph == "pause glyph"

\* App::new's station_url.
DefaultStation == "https://ice5.somafm.com/dubstep-128-mp3"

\* The three states of enum Download.
DownloadNone == [tag |-> "None"]
DownloadInProgress == [tag |-> "InProgress"]
DownloadDone(r) == [tag |-> "Done", response |-> r]

\* What ehttp hands to the callback: Err(error), or Ok(response) whose
\* text() is None (<<>>) or Some(text) (<<text>>).
Responses ==
    {[ok |-> FALSE, text |-> <<>>],
     [ok |-> TRUE, text |-> <<>>],
     [ok |-> TRUE, text |-> <<"not json">>],
     [ok |-> TRUE, text |-> <<"[a]">>],
     [ok |-> TRUE, text |-> <<"[b,a]">>]}

\* serde_json::from_str::<Vec<Station>>(text), as far as App uses it: Ok with
\* the url_resolved of each station (<<list>>), or Err (<<>>).
from_str(text) ==
    CASE text = "[a]"   -> << <<"https://a">> >>
      [] text = "[b,a]" -> << <<"https://b", "https://a">> >>
      [] OTHER          -> <<>>

\* `v as f64 / 100.0`, the argument of HtmlAudioElement::set_volume, as an
\* exact fraction.
AsFraction(v) == [num |-> v, den |-> 100]

\* An HtmlAudioElement nothing was done to: no src, the default volume 1.0,
\* no command received.  sent lists the commands of the latest frame and
\* last is the last of play and pause received.
AudioNew == [src |-> "", volume |-> [num |-> 1, den |-> 1], sent |-> <<>>,
             last |-> "none"]

\* HtmlAudioElement::set_src, pause, play and set_volume.
audio_set_src(mp, u) ==
    [mp EXCEPT !.src = u, !.sent = Append(@, <<"set_src", u>>)]
audio_pause(mp) ==
    [mp EXCEPT !.last = "pause", !.sent = Append(@, <<"pause">>)]
audio_play(mp) ==
    [mp EXCEPT !.last = "play", !.sent = Append(@, <<"play">>)]
audio_set_volume(mp, x) ==
    [mp EXCEPT !.volume = x, !.sent = Append(@, <<"set_volume", x>>)]

\* Nothing clicked yet.  event is the input of the latest frame; saved is
\* the slider volume that a click on the volume icon muted, until the
\* slider is moved or the icon is clicked again.
SeenInit == [event |-> [kind |-> "new"], saved |-> <<>>]

\* App::new
App_new ==
    /\ download = DownloadNone
    /\ stations = <<>>
    /\ station_url = DefaultStation
    /\ volume_on_slider = InitialVolume
    /\ volume_before_mute = InitialVolume
    /\ playing_icon = PlayGlyph
    /\ media_player = AudioNew
    /\ fetches = 0
    /\ seen = SeenInit

----------------------------------------------------------------------------
(* Construction *)

\* A constructor that marks its volume as a change still to be applied.
new_marks_volume_changed(v0) ==
    /\ is_playing = FALSE
    /\ is_volume_changed = ValidVolume(v0)
    /\ volume = (IF ValidVolume(v0) THEN v0 ELSE MinVolume)
    /\ url = ""
    /\ gui_pc = (IF ValidVolume(v0) THEN "idle" ELSE "panicked_new")
    /\ pc = [w \in Workers |-> "none"]
    /\ wurl = [w \in Workers |-> ""]
    /\ wvol = [w \in Workers |-> <<>>]
    /\ native = [w \in Workers |-> NativeInit]
    /\ obs = ObsInit

\* VLCMediaPlayer::new(v0): validates v0, then builds the adapter with the
\* player off, no pending volume change, volume v0 and an empty url.  When
\* validate_volume panics no adapter exists: its fields are given values
\* only so that the state is defined.
new(v0) ==
    /\ is_playing = FALSE
    /\ is_volume_changed = FALSE
    /\ volume = (IF ValidVolume(v0) THEN v0 ELSE MinVolume)
    /\ url = ""
    /\ gui_pc = (IF ValidVolume(v0) THEN "idle" ELSE "panicked_new")
    /\ pc = [w \in Workers |-> "none"]
    /\ wurl = [w \in Workers |-> ""]
    /\ wvol = [w \in Workers |-> <<>>]
    /\ native = [w \in Workers |-> NativeInit]
    /\ obs = ObsInit

Init == (\E v0 \in VolumeInputs : new(v0)) /\ App_new

----------------------------------------------------------------------------
(* The adapter calls of the GUI thread *)

\* A set_src whose string is shared with the workers already spawned
\* instead of having been copied for each of them.
set_src_shared(u) ==
    /\ gui_pc = "idle"
    /\ obs.calls < MaxCalls
    /\ url' = u
    /\ wurl' = [w \in Workers |-> IF pc[w] = "none" THEN wurl[w] ELSE u]
    /\ obs' = [obs EXCEPT !.calls = @ + 1, !.last_call = "set_src",
                          !.last_src = <<u>>, !.win = WinNone]
    /\ UNCHANGED <<is_playing, is_volume_changed, volume, gui_pc, pc, wvol,
                   native>>
    /\ UNCHANGED app

\* set_src(u): self.url = u.to_string()
set_src(u) ==
    /\ gui_pc = "idle"
    /\ obs.calls < MaxCalls
    /\ url' = u
    /\ obs' = [obs EXCEPT !.calls = @ + 1, !.last_call = "set_src",
                          !.last_src = <<u>>, !.win = WinNone]
    /\ UNCHANGED <<is_playing, is_volume_changed, volume, gui_pc, worker>>
    /\ UNCHANGED app

\* A play() that goes to play_url without the store to is_playing.
play_without_store ==
    /\ gui_pc = "idle"
    /\ obs.calls < MaxCalls
    /\ Cardinality(Spawned) < MaxWorkers
    /\ gui_pc' = "play_url"
    /\ obs' = [obs EXCEPT !.calls = @ + 1, !.last_call = "play",
                          !.plays_since_pause = @ + 1,
                          !.sig = [w \in Workers |->
                                     IF @[w] = "paused" THEN "replayed" ELSE @[w]],
                          !.win = WinNone]
    /\ UNCHANGED <<shared, worker>>
    /\ UNCHANGED app

\* A play() that also resets the pending volume change.
play_resets_dirty ==
    /\ gui_pc = "idle"
    /\ obs.calls < MaxCalls
    /\ Cardinality(Spawned) < MaxWorkers
    /\ is_playing' = TRUE
    /\ is_volume_changed' = FALSE
    /\ gui_pc' = "play_url"
    /\ obs' = [obs EXCEPT !.calls = @ + 1, !.last_call = "play",
                          !.plays_since_pause = @ + 1,
                          !.sig = [w \in Workers |->
                                     IF @[w] = "paused" THEN "replayed" ELSE @[w]],
                          !.win = WinNone]
    /\ UNCHANGED <<volume, url, worker>>
    /\ UNCHANGED app

\* play(), first statement: self.is_playing.store(true)
play ==
    /\ gui_pc = "idle"
    /\ obs.calls < MaxCalls
    /\ Cardinality(Spawned) < MaxWorkers
    /\ is_playing' = TRUE
    /\ gui_pc' = "play_url"
    /\ obs' = [obs EXCEPT !.calls = @ + 1, !.last_call = "play",
                          !.plays_since_pause = @ + 1,
                          !.sig = [w \in Workers |->
                                     IF @[w] = "paused" THEN "replayed" ELSE @[w]],
                          !.win = WinNone]
    /\ UNCHANGED <<is_volume_changed, volume, url, worker>>
    /\ UNCHANGED app

\* play_url(): clone the three Arcs, copy the url, spawn the closure.
play_url ==
    /\ gui_pc = "play_url"
    /\ LET w == Cardinality(Spawned) + 1 IN
         /\ pc' = [pc EXCEPT ![w] = "Starting"]
         /\ wurl' = [wurl EXCEPT ![w] = url]
         /\ obs' = [obs EXCEPT !.play_src[w] = obs.last_src,
                               !.armed = FALSE,
                               !.heir = IF obs.armed THEN w ELSE @]
    /\ gui_pc' = "idle"
    /\ UNCHANGED <<shared, wvol, native>>
    /\ UNCHANGED app

\* A pause() that leaves out the store to is_playing.
pause_without_store ==
    /\ gui_pc = "idle"
    /\ obs.calls < MaxCalls
    /\ obs' = [obs EXCEPT !.calls = @ + 1, !.last_call = "pause",
                          !.plays_since_pause = 0,
                          !.sig = [w \in Workers |->
                                     IF WState(pc[w]) \in {"NotSpawned", "Terminated"}
                                       THEN @[w] ELSE "paused"],
                          !.win = WinNone]
    /\ UNCHANGED <<shared, gui_pc, worker>>
    /\ UNCHANGED app

\* A pause() that waits until no worker is starting up.
pause_waits_for_start ==
    /\ gui_pc = "idle"
    /\ obs.calls < MaxCalls
    /\ \A w \in Workers : pc[w] # "Starting"
    /\ is_playing' = FALSE
    /\ obs' = [obs EXCEPT !.calls = @ + 1, !.last_call = "pause",
                          !.plays_since_pause = 0,
                          !.sig = [w \in Workers |->
                                     IF WState(pc[w]) \in {"NotSpawned", "Terminated"}
                                       THEN @[w] ELSE "paused"],
                          !.win = WinNone]
    /\ UNCHANGED <<is_volume_changed, volume, url, gui_pc, worker>>
    /\ UNCHANGED app

\* pause(): self.is_playing.store(false)
pause ==
    /\ gui_pc = "idle"
    /\ obs.calls < MaxCalls
    /\ is_playing' = FALSE
    /\ obs' = [obs EXCEPT !.calls = @ + 1, !.last_call = "pause",
                          !.plays_since_pause = 0,
                          !.sig = [w \in Workers |->
                                     IF WState(pc[w]) \in {"NotSpawned", "Terminated"}
                                       THEN @[w] ELSE "paused"],
                          !.win = WinNone]
    /\ UNCHANGED <<is_volume_changed, volume, url, gui_pc, worker>>
    /\ UNCHANGED app

\* A set_volume that does not overwrite `volume` while a change is pending.
set_volume_keeps_pending(v) ==
    /\ gui_pc = "idle"
    /\ obs.calls < MaxCalls
    /\ IF ValidVolume(v)
         THEN /\ volume' = (IF is_volume_changed THEN volume ELSE v)
              /\ gui_pc' = "set_volume_flag"
              /\ obs' = [obs EXCEPT !.calls = @ + 1, !.last_call = "set_volume",
                                    !.last_arg = <<v>>,
                                    !.win = WinCall]
         ELSE /\ gui_pc' = "panicked_set_volume"
              /\ obs' = [obs EXCEPT !.calls = @ + 1, !.last_call = "set_volume",
                                    !.last_arg = <<v>>,
                                    !.win = WinNone]
              /\ UNCHANGED volume
    /\ UNCHANGED <<is_playing, is_volume_changed, url, worker>>
    /\ UNCHANGED app

\* A set_volume that clamps its argument to the range instead of panicking.
set_volume_clamps(v) ==
    /\ gui_pc = "idle"
    /\ obs.calls < MaxCalls
    /\ volume' = (IF v < MinVolume THEN MinVolume
                  ELSE IF v > MaxVolume THEN MaxVolume ELSE v)
    /\ gui_pc' = "set_volume_flag"
    /\ obs' = [obs EXCEPT !.calls = @ + 1, !.last_call = "set_volume",
                          !.last_arg = <<v>>, !.win = WinCall]
    /\ UNCHANGED <<is_playing, is_volume_changed, url, worker>>
    /\ UNCHANGED app

\* A set_volume that stores its argument before it validates it.
set_volume_stores_first(v) ==
    /\ gui_pc = "idle"
    /\ obs.calls < MaxCalls
    /\ volume' = v
    /\ IF ValidVolume(v)
         THEN /\ gui_pc' = "set_volume_flag"
              /\ obs' = [obs EXCEPT !.calls = @ + 1, !.last_call = "set_volume",
                                    !.last_arg = <<v>>,
                                    !.win = WinCall]
         ELSE /\ gui_pc' = "panicked_set_volume"
              /\ obs' = [obs EXCEPT !.calls = @ + 1, !.last_call = "set_volume",
                                    !.last_arg = <<v>>,
                                    !.win = WinNone]
    /\ UNCHANGED <<is_playing, is_volume_changed, url, worker>>
    /\ UNCHANGED app

\* set_volume(v), up to its first store: validate_volume(v) panics or
\* returns v, then self.volume.store(v).
set_volume(v) ==
    /\ gui_pc = "idle"
    /\ obs.calls < MaxCalls
    /\ IF ValidVolume(v)
         THEN /\ volume' = v
              /\ gui_pc' = "set_volume_flag"
              /\ obs' = [obs EXCEPT !.calls = @ + 1, !.last_call = "set_volume",
                                    !.last_arg = <<v>>,
                                    !.win = WinCall]
         ELSE /\ gui_pc' = "panicked_set_volume"
              /\ obs' = [obs EXCEPT !.calls = @ + 1, !.last_call = "set_volume",
                                    !.last_arg = <<v>>,
                                    !.win = WinNone]
              /\ UNCHANGED volume
    /\ UNCHANGED <<is_playing, is_volume_changed, url, worker>>
    /\ UNCHANGED app

\* set_volume(v), second store: self.is_volume_changed.store(true)
set_volume_flag ==
    /\ gui_pc = "set_volume_flag"
    /\ is_volume_changed' = TRUE
    /\ gui_pc' = "idle"
    /\ obs' = [obs EXCEPT !.win.done = (obs.win.w # 0),
                          !.armed = (ActiveWorkers = {})]
    /\ UNCHANGED <<is_playing, volume, url, worker>>
    /\ UNCHANGED app

----------------------------------------------------------------------------
(* The steps of a playback worker (the closure given to thread::spawn).    *)
(* A worker runs only while the process does.                              *)

\* A start-up that makes the media from the adapter's url as it is when the
\* worker runs, not from the copy taken when the worker was spawned.
start_ok_reads_adapter_url(w) ==
    /\ Running
    /\ pc[w] = "Starting"
    /\ native' = [native EXCEPT ![w].media = <<url>>, ![w].playing = TRUE]
    /\ pc' = [pc EXCEPT ![w] = "poll"]
    /\ obs' = ObsStep(w, "poll")
    /\ UNCHANGED <<shared, gui_pc, wurl, wvol>>
    /\ UNCHANGED app

\* Instance::new, MediaPlayer::new, Media::new_location(&url), set_media and
\* play all succeed.  These calls touch only the worker's own objects.
start_ok(w) ==
    /\ Running
    /\ pc[w] = "Starting"
    /\ native' = [native EXCEPT ![w].media = <<wurl[w]>>, ![w].playing = TRUE]
    /\ pc' = [pc EXCEPT ![w] = "poll"]
    /\ obs' = ObsStep(w, "poll")
    /\ UNCHANGED <<shared, gui_pc, wurl, wvol>>
    /\ UNCHANGED app

\* A failing start-up that reports the failure by clearing is_playing.
start_fail_clears_playing(w, stage) ==
    /\ Running
    /\ pc[w] = "Starting"
    /\ native' = [native EXCEPT ![w].media =
                     IF stage = "MediaPlayer::play" THEN <<wurl[w]>> ELSE <<>>]
    /\ pc' = [pc EXCEPT ![w] = "Panicked"]
    /\ is_playing' = FALSE
    /\ obs' = ObsStep(w, "Panicked")
    /\ UNCHANGED <<is_volume_changed, volume, url, gui_pc, wurl, wvol>>
    /\ UNCHANGED app

\* One of the unwrapped start-up calls fails: the worker thread panics.  The
\* media was made from the url when the call that failed comes after it.
start_fail(w, stage) ==
    /\ Running
    /\ pc[w] = "Starting"
    /\ native' = [native EXCEPT ![w].media =
                     IF stage = "MediaPlayer::play" THEN <<wurl[w]>> ELSE <<>>]
    /\ pc' = [pc EXCEPT ![w] = "Panicked"]
    /\ obs' = ObsStep(w, "Panicked")
    /\ UNCHANGED <<shared, gui_pc, wurl, wvol>>
    /\ UNCHANGED app

\* A loop test that reads is_volume_changed in place of is_playing.
poll_tests_dirty(w) ==
    /\ Running
    /\ pc[w] = "poll"
    /\ LET p == IF is_volume_changed THEN "check_volume" ELSE "stop" IN
         /\ pc' = [pc EXCEPT ![w] = p]
         /\ obs' = ObsStep(w, p)
    /\ UNCHANGED <<shared, gui_pc, wurl, wvol, native>>
    /\ UNCHANGED app

\* while is_playing.load(): enter the loop body, or leave the loop.
poll(w) ==
    /\ Running
    /\ pc[w] = "poll"
    /\ LET p == IF is_playing THEN "check_volume" ELSE "stop" IN
         /\ pc' = [pc EXCEPT ![w] = p]
         /\ obs' = ObsStep(w, p)
    /\ UNCHANGED <<shared, gui_pc, wurl, wvol, native>>
    /\ UNCHANGED app

\* if is_volume_changed.load(): when false the body ends with yield_now.
check_volume(w) ==
    /\ Running
    /\ pc[w] = "check_volume"
    /\ LET p == IF is_volume_changed THEN "load_volume" ELSE "poll" IN
         /\ pc' = [pc EXCEPT ![w] = p]
         /\ obs' = ObsStep(w, p)
    /\ UNCHANGED <<shared, gui_pc, wurl, wvol, native>>
    /\ UNCHANGED app

\* volume.load(): the argument of the native set_volume.
load_volume(w) ==
    /\ Running
    /\ pc[w] = "load_volume"
    /\ wvol' = [wvol EXCEPT ![w] = <<volume>>]
    /\ pc' = [pc EXCEPT ![w] = "apply_volume"]
    /\ obs' = ObsStep(w, "apply_volume")
    /\ UNCHANGED <<shared, gui_pc, wurl, native>>
    /\ UNCHANGED app

\* media_player.set_volume(..).unwrap(), the native call succeeding.
apply_volume(w) ==
    /\ Running
    /\ pc[w] = "apply_volume"
    /\ native' = [native EXCEPT ![w].volume = wvol[w]]
    /\ wvol' = [wvol EXCEPT ![w] = <<>>]
    /\ pc' = [pc EXCEPT ![w] = "clear_flag"]
    /\ obs' = ObsStep(w, "clear_flag")
    /\ UNCHANGED <<shared, gui_pc, wurl>>
    /\ UNCHANGED app

\* media_player.set_volume(..).unwrap(), the native call failing: the worker
\* thread panics.
apply_volume_fail(w) ==
    /\ Running
    /\ pc[w] = "apply_volume"
    /\ wvol' = [wvol EXCEPT ![w] = <<>>]
    /\ pc' = [pc EXCEPT ![w] = "Panicked"]
    /\ obs' = ObsStep(w, "Panicked")
    /\ UNCHANGED <<shared, gui_pc, wurl, native>>
    /\ UNCHANGED app

\* is_volume_changed.store(false), then yield_now and back to the loop test.
clear_flag(w) ==
    /\ Running
    /\ pc[w] = "clear_flag"
    /\ is_volume_changed' = FALSE
    /\ pc' = [pc EXCEPT ![w] = "poll"]
    /\ obs' = ObsStep(w, "poll")
    /\ UNCHANGED <<is_playing, volume, url, gui_pc, wurl, wvol, native>>
    /\ UNCHANGED app

\* media_player.stop()
stop(w) ==
    /\ Running
    /\ pc[w] = "stop"
    /\ native' = [native EXCEPT ![w].playing = FALSE, ![w].stops = @ + 1]
    /\ pc' = [pc EXCEPT ![w] = "store_false"]
    /\ obs' = ObsStep(w, "store_false")
    /\ UNCHANGED <<shared, gui_pc, wurl, wvol>>
    /\ UNCHANGED app

\* is_playing.store(false), then the closure returns.
store_false(w) ==
    /\ Running
    /\ pc[w] = "store_false"
    /\ is_playing' = FALSE
    /\ pc' = [pc EXCEPT ![w] = "Terminated"]
    /\ obs' = ObsStep(w, "Terminated")
    /\ UNCHANGED <<is_volume_changed, volume, url, gui_pc, wurl, wvol, native>>
    /\ UNCHANGED app

WorkerStep(w) ==
    \/ start_ok(w)
    \/ \E stage \in StartStages : start_fail(w, stage)
    \/ poll(w)
    \/ check_volume(w)
    \/ load_volume(w)
    \/ apply_volume(w)
    \/ apply_volume_fail(w)
    \/ clear_flag(w)
    \/ stop(w)
    \/ store_false(w)

GuiStep ==
    \/ \E u \in UrlInputs : set_src(u)
    \/ play
    \/ play_url
    \/ pause
    \/ \E v \in VolumeInputs : set_volume(v)
    \/ set_volume_flag

Next ==
    \/ GuiStep
    \/ \E w \in Workers : WorkerStep(w)

Spec == Init /\ [][Next]_vars

\* The operating system schedules every thread that can take a step: each
\* worker goes on, and the GUI thread finishes a call it has begun.  The GUI
\* thread begins a call only when the user acts, so no call is ever required.
FairSpec ==
    /\ Spec
    /\ \A w \in Workers : WF_vars(WorkerStep(w))
    /\ WF_vars(play_url)
    /\ WF_vars(set_volume_flag)

----------------------------------------------------------------------------
(* App::update, one call for each frame.  The input of a frame is at most  *)
(* one click or slider press; the panels run in the order of the source:   *)
(* the search panel, the bottom panel, then the central panel with the     *)
(* download match and the station list.                                    *)

\* Number of stations in the longest list a response parses to.
MaxStations == 2

\* The inputs of a frame.
Events ==
    {[kind |-> k] : k \in {"none", "search", "play_pause", "volume_icon"}}
        \cup {[kind |-> "slider", v |-> v] : v \in SliderInputs}
        \cup {[kind |-> "station", i |-> i] : i \in 1..MaxStations}

\* The play/pause button clicked: the match on playing_icon.  Gives the new
\* icon and what the player was told.
play_pause_button(icon, mp, src) ==
    CASE icon = PauseGlyph -> [icon |-> PlayGlyph, mp |-> audio_pause(mp)]
      [] icon = PlayGlyph  -> [icon |-> PauseGlyph,
                               mp |-> audio_play(audio_set_src(mp, src))]
      [] OTHER             -> [icon |-> icon, mp |-> mp]

\* A volume icon that mutes without saving the volume it mutes.
volume_icon_button_forgets(slider, before, mp) ==
    LET s == IF slider # 0 THEN 0 ELSE before
    IN [slider |-> s, before |-> before,
        mp |-> audio_set_volume(mp, AsFraction(s))]

\* The volume icon clicked: mute and save, or restore; then set_volume.
volume_icon_button(slider, before, mp) ==
    LET s == IF slider # 0 THEN 0 ELSE before
        b == IF slider # 0 THEN slider ELSE before
    IN [slider |-> s, before |-> b, mp |-> audio_set_volume(mp, AsFraction(s))]

\* The slider pressed or dragged to v: egui writes v, then set_volume.
volume_slider(v, mp) ==
    [slider |-> v, mp |-> audio_set_volume(mp, AsFraction(v))]

\* The match on the download: only Done(Ok) with text that parses stores
\* the stations and sets the download to None.
download_match(d, st) ==
    IF d.tag = "Done" /\ d.response.ok /\ d.response.text # <<>>
          /\ from_str(d.response.text[1]) # <<>>
      THEN [download |-> DownloadNone,
            stations |-> from_str(d.response.text[1])[1]]
      ELSE [download |-> d, stations |-> st]

\* A station button that plays the station before it pauses the player.
station_button_plays_first(u, mp) ==
    [icon |-> PauseGlyph, url |-> u,
     mp |-> audio_pause(audio_play(audio_set_src(mp, u)))]

\* A station's play button clicked: icon, station_url, set_src, pause, play.
station_button(u, mp) ==
    [icon |-> PauseGlyph, url |-> u,
     mp |-> audio_play(audio_pause(audio_set_src(mp, u)))]

\* seen after a frame with input e, the slider at `slider` before it.
SeenStep(e, slider) ==
    [event |-> e,
     saved |-> IF e.kind = "slider" THEN <<>>
               ELSE IF e.kind = "volume_icon"
                      THEN (IF slider # 0 THEN <<slider>> ELSE <<>>)
               ELSE seen.saved]

\* App::update with input e.
update(e) ==
    LET mp0 == [media_player EXCEPT !.sent = <<>>]
        d1 == IF e.kind = "search" THEN DownloadInProgress ELSE download
        pp == IF e.kind = "play_pause"
                THEN play_pause_button(playing_icon, mp0, station_url)
                ELSE [icon |-> playing_icon, mp |-> mp0]
        vi == IF e.kind = "volume_icon"
                THEN volume_icon_button(volume_on_slider, volume_before_mute, pp.mp)
                ELSE [slider |-> volume_on_slider, before |-> volume_before_mute,
                      mp |-> pp.mp]
        sl == IF e.kind = "slider" THEN volume_slider(e.v, vi.mp)
                ELSE [slider |-> vi.slider, mp |-> vi.mp]
        dm == download_match(d1, stations)
    IN  /\ e.kind = "search" => fetches < MaxFetches
        /\ e.kind = "station" => e.i <= Len(dm.stations)
        /\ LET sb == IF e.kind = "station"
                       THEN station_button(dm.stations[e.i], sl.mp)
                       ELSE [icon |-> pp.icon, url |-> station_url, mp |-> sl.mp]
           IN /\ playing_icon' = sb.icon
              /\ station_url' = sb.url
              /\ media_player' = sb.mp
        /\ fetches' = IF e.kind = "search" THEN fetches + 1 ELSE fetches
        /\ volume_on_slider' = sl.slider
        /\ volume_before_mute' = vi.before
        /\ download' = dm.download
        /\ stations' = dm.stations
        /\ seen' = SeenStep(e, volume_on_slider)
        /\ UNCHANGED adapter

\* The callback given to ehttp::fetch runs, on another thread or task:
\* *download_store.lock().unwrap() = Download::Done(response)
fetch_done(r) ==
    /\ fetches > 0
    /\ fetches' = fetches - 1
    /\ download' = DownloadDone(r)
    /\ seen' = [seen EXCEPT !.event = [kind |-> "fetch_done"]]
    /\ UNCHANGED <<stations, station_url, volume_on_slider, volume_before_mute,
                   playing_icon, media_player>>
    /\ UNCHANGED adapter

AppNext ==
    \/ \E e \in Events : update(e)
    \/ \E r \in Responses : fetch_done(r)

\* The adapter's variables are held at a built adapter, which App never
\* touches.
AppInit == App_new /\ new(InitialVolume)

AppSpec == AppInit /\ [][AppNext]_vars

----------------------------------------------------------------------------
(* Properties *)

\* C1: after play() was called twice with no pause() in between, and the
\* second call has returned, at most one worker is in Starting or Playing.
C1_AtMostOneActiveWorker ==
    (obs.plays_since_pause >= 2 /\ gui_pc # "play_url")
        => Cardinality(ActiveWorkers) <= 1

C3_PausedWorkerTerminates ==
    \A w \in Workers :
        (obs.sig[w] # "none") ~> (WState(pc[w]) = "Terminated" \/ ~Running)

\* C4: once set_volume(v) has returned with one worker active and in its
\* loop, and that worker has then completed a loop iteration with no other
\* adapter call made, the native player has been given exactly v, once, and
\* is_volume_changed is false; this stays so through further iterations.
C4_SetVolumeAppliedOnce ==
    (obs.win.w # 0 /\ obs.win.iterated)
        => (obs.win.applied = obs.last_arg /\ ~is_volume_changed)

\* C5: whenever the only active worker clears is_volume_changed while no
\* set_volume call is in progress, the value it last gave to the native
\* player is the current `volume`.
C5_ClearKeepsLatestVolume ==
    [][\A w \in Workers :
         (pc[w] = "clear_flag" /\ pc'[w] # "clear_flag"
            /\ gui_pc = "idle" /\ ActiveWorkers = {w})
               => native[w].volume = <<volume>>
      ]_vars

\* C6: when two or more set_volume calls were made one after the other
\* while the only active worker stayed at its loop test, and the worker has
\* then completed a loop iteration with no other adapter call made, the
\* native player has been given the last call's value, once, and no other.
C6_LastWriteWins ==
    (obs.win.w # 0 /\ obs.win.burst >= 2 /\ obs.win.iterated)
        => obs.win.applied = obs.last_arg

\* C6, reached: three set_volume calls between two polls, then an iteration
\* that gave the native player the last value, which is not the value the
\* adapter was created with.
C6_Witness ==
    /\ obs.win.w # 0
    /\ obs.win.burst >= 3
    /\ obs.win.iterated
    /\ obs.win.applied = <<30>>
    /\ native[obs.win.w].volume = <<30>>

\* C7: while an adapter exists, `volume` is in 0..100, and so is every
\* value a worker has loaded for, or given to, the native set_volume.
C7_VolumeInRange ==
    gui_pc # "panicked_new" =>
        /\ volume \in MinVolume..MaxVolume
        /\ \A w \in Workers :
             /\ \A i \in 1..Len(wvol[w]) : wvol[w][i] \in MinVolume..MaxVolume
             /\ \A i \in 1..Len(native[w].volume) :
                    native[w].volume[i] \in MinVolume..MaxVolume

\* C7, reached: a worker gave the native player the top of the range.
C7_Witness ==
    \E w \in Workers :
        native[w].volume = <<MaxVolume>> /\ obs.last_arg = <<MaxVolume>>

\* C8, as claimed: no set_volume call ends in a panic.
C8_SetVolumeNeverPanics == gui_pc # "panicked_set_volume"

\* C8, amended: set_volume(v) panics exactly when v is outside 0..100: the
\* GUI thread is in the panic of set_volume if and only if the argument of
\* the last set_volume call was out of range.
C8_OutOfRangePanics ==
    (gui_pc = "panicked_set_volume")
        <=> (obs.last_arg # <<>> /\ obs.last_arg[1] \notin MinVolume..MaxVolume)

\* C8, reached: set_volume(101) has panicked.
C8_Witness ==
    gui_pc = "panicked_set_volume" /\ obs.last_arg = <<MaxVolume + 1>>

\* C9: a set_volume call that panics had an argument outside 0..100 and
\* changed none of is_playing, is_volume_changed, `volume` and url; a call
\* that goes on had an argument in 0..100, first stores it in `volume` with
\* the flag untouched, and then sets is_volume_changed with `volume` untouched.
C9_ValidateBeforeWrite ==
    [][/\ (gui_pc = "idle" /\ gui_pc' = "panicked_set_volume")
            => /\ obs'.last_arg[1] \notin MinVolume..MaxVolume
               /\ UNCHANGED <<is_playing, is_volume_changed, volume, url>>
       /\ (gui_pc = "idle" /\ gui_pc' = "set_volume_flag")
            => /\ obs'.last_arg[1] \in MinVolume..MaxVolume
               /\ volume' = obs'.last_arg[1]
               /\ UNCHANGED <<is_playing, is_volume_changed, url>>
       /\ (gui_pc = "set_volume_flag" /\ gui_pc' # "set_volume_flag")
            => /\ gui_pc' = "idle"
               /\ is_volume_changed'
               /\ UNCHANGED <<is_playing, volume, url>>
      ]_vars

\* C9, reached: set_volume(30) stored and flagged, then set_volume(-1)
\* panicked and left volume = 30 with the flag set while playing.
C9_Witness ==
    /\ gui_pc = "panicked_set_volume"
    /\ obs.last_arg = <<MinVolume - 1>>
    /\ volume = 30
    /\ is_volume_changed
    /\ is_playing

\* C10: the media a worker made is made from the argument of the last
\* set_src call that came before the play() call that spawned the worker.
C10_UrlRoundTrip ==
    \A w \in Workers :
        (native[w].media # <<>> /\ obs.play_src[w] # <<>>)
            => native[w].media = obs.play_src[w]

\* C10, reached: set_src(b), play(), set_src(a), and the worker then made
\* its media from b.
C10_Witness ==
    \E w \in Workers :
        /\ obs.play_src[w] = <<"https://b">>
        /\ native[w].media = <<"https://b">>
        /\ url = "https://a"
        /\ pc[w] = "poll"


----------------------------------------------------------------------------
(* A GUI call is recognised by the step that counts it.                    *)

\* C11: a set_src call only records the url for the next play: it changes
\* neither is_playing, is_volume_changed nor volume, it spawns and stops no
\* worker and touches no native player, and the url a spawned worker holds
\* is never changed by any step.
C11_SetSrcOnlyRecordsUrl ==
    [][ /\ (obs'.calls = obs.calls + 1 /\ obs'.last_call = "set_src")
           => /\ url' = obs'.last_src[1]
              /\ UNCHANGED <<is_playing, is_volume_changed, volume>>
              /\ UNCHANGED <<gui_pc, pc, wurl, wvol, native>>
        /\ \A w \in Workers : pc[w] # "none" => wurl'[w] = wurl[w]
      ]_vars

\* C11, reached: the last call was set_src(a) while a worker that was
\* spawned with b is in its loop, still holding b.
C11_Witness ==
    /\ obs.last_call = "set_src"
    /\ url = "https://a"
    /\ \E w \in Workers : WState(pc[w]) = "Playing" /\ wurl[w] = "https://b"


C13_DirtyFlagProtocol ==
    [][ /\ (~is_volume_changed /\ is_volume_changed')
           => /\ gui_pc = "set_volume_flag" /\ gui_pc' = "idle"
              /\ obs.last_call = "set_volume"
              /\ UNCHANGED pc
        /\ (is_volume_changed /\ ~is_volume_changed')
           => /\ UNCHANGED gui_pc
              /\ \E w \in Workers :
                    /\ pc[w] = "clear_flag" /\ pc'[w] = "poll"
                    /\ native[w].volume # <<>>
        /\ \A w \in Workers :
              /\ (pc'[w] = "clear_flag" /\ pc[w] # "clear_flag")
                 => /\ pc[w] = "apply_volume"
                    /\ wvol[w] # <<>>
                    /\ native'[w].volume = wvol[w]
              /\ (pc'[w] = "apply_volume" /\ pc[w] # "apply_volume")
                 => /\ pc[w] = "load_volume"
                    /\ wvol'[w] = <<volume>>
        /\ (obs'.calls = obs.calls + 1
              /\ obs'.last_call \in {"pause", "play", "set_src"})
           => UNCHANGED is_volume_changed
        /\ (gui_pc = "play_url" /\ gui_pc' = "idle")
           => UNCHANGED is_volume_changed
      ]_vars

\* C13, reached: a worker applied 30 and cleared the flag, after a
\* set_volume(30) had set it, and the worker polls on.
C13_Witness ==
    \E w \in Workers :
        /\ native[w].volume = <<30>>
        /\ volume = 30
        /\ ~is_volume_changed
        /\ pc[w] = "poll"
        /\ obs.last_call = "set_volume"


\* C14: each shared field has one writer for each direction.  No step of a
\* worker changes volume, turns is_playing to true or turns
\* is_volume_changed to true; no step of the GUI thread turns
\* is_volume_changed to false; and never are two threads at once about to
\* store the same value to the same field.
C14_SingleWriterPerDirection ==
    [][ /\ (volume' # volume \/ (~is_playing /\ is_playing')
              \/ (~is_volume_changed /\ is_volume_changed'))
           => UNCHANGED pc /\ gui_pc' # gui_pc
        /\ (is_volume_changed /\ ~is_volume_changed')
           => UNCHANGED gui_pc /\ obs'.calls = obs.calls
        /\ Cardinality({w \in Workers : pc'[w] = "clear_flag"}) <= 1
        /\ Cardinality({w \in Workers : pc'[w] = "store_false"}) <= 1
      ]_vars


\* C15: the last store of a worker is idempotent: whenever a worker stores
\* false to is_playing after it stopped its native player, is_playing is
\* false already, so the store does not change the flag and does not turn
\* off what a later play() call turned on.
C15_FinalStoreIdempotent ==
    [][ \A w \in Workers :
          (pc[w] = "store_false" /\ pc'[w] # "store_false")
              => ~is_playing /\ UNCHANGED is_playing
      ]_vars


\* The place of a worker state in the order of a worker's life.
Rank(st) ==
    CASE st = "NotSpawned" -> 0
      [] st = "Starting"   -> 1
      [] st = "Playing"    -> 2
      [] st = "Stopping"   -> 3
      [] st = "Terminated" -> 4

\* What C16 says of every step but the one that leaves Playing: a worker
\* never goes back, never goes from Starting to Stopping, the native stop is
\* called only in Stopping, and a worker that ended stays as it is.
LifecycleOrder(w) ==
    /\ Rank(WState(pc'[w])) >= Rank(WState(pc[w]))
    /\ ~(WState(pc[w]) = "Starting" /\ WState(pc'[w]) = "Stopping")
    /\ WState(pc[w]) = "NotSpawned" => WState(pc'[w]) \in {"NotSpawned", "Starting"}
    /\ native'[w].stops # native[w].stops
          => /\ WState(pc[w]) = "Stopping"
             /\ native'[w].stops = native[w].stops + 1
    /\ WState(pc[w]) = "Terminated"
          => /\ pc'[w] = pc[w]
             /\ native'[w] = native[w]

\* C16 as stated: every worker goes Starting, Playing, Stopping, Terminated
\* in this order, and it leaves Playing only by a loop test that read
\* is_playing = false, which takes it to Stopping.
C16_LeavesPlayingOnlyOnFalse ==
    [][ \A w \in Workers :
          /\ LifecycleOrder(w)
          /\ (WState(pc[w]) = "Playing" /\ WState(pc'[w]) # "Playing")
                => /\ pc[w] = "poll" /\ ~is_playing
                   /\ WState(pc'[w]) = "Stopping"
      ]_vars

\* C16, amended: the same order, and a worker leaves Playing either by a
\* loop test that read is_playing = false, to Stopping, or by the panic of
\* the unwrapped native set_volume, straight to Terminated without a native
\* stop and without a write to a shared field.
C16_LeavesPlayingOnFalseOrPanic ==
    [][ \A w \in Workers :
          /\ LifecycleOrder(w)
          /\ (WState(pc[w]) = "Playing" /\ WState(pc'[w]) # "Playing")
                => \/ /\ pc[w] = "poll" /\ ~is_playing
                      /\ WState(pc'[w]) = "Stopping"
                   \/ /\ pc[w] = "apply_volume"
                      /\ WState(pc'[w]) = "Terminated"
                      /\ native'[w] = native[w]
                      /\ UNCHANGED <<is_playing, is_volume_changed, volume, url>>
          /\ (pc[w] = "poll" /\ pc'[w] # "poll" /\ is_playing)
                => WState(pc'[w]) = "Playing"
      ]_vars

\* C16, reached: one worker went through Stopping and ended after one
\* native stop, and another ended in Playing by the panic, its native
\* player never stopped.
C16_Witness ==
    \E w, x \in Workers :
        /\ pc[w] = "Terminated" /\ native[w].stops = 1
        /\ pc[x] = "Panicked" /\ native[x].playing /\ native[x].stops = 0


\* Worker w ended by a panic of its start-up, before its player played.
FailedInStarting(w) == pc[w] = "Panicked" /\ ~native[w].playing

\* C17: a failure of a native call in Starting stays inside the worker.  The
\* step that fails ends the worker without a native stop, writes none of
\* is_playing, is_volume_changed, volume and url, and leaves the GUI thread
\* and every other worker where they are; the failed worker takes no further
\* step; and while a failed worker exists the GUI thread, when idle, can
\* still make each of the calls play, pause, set_volume and set_src.
C17_StartFailureIsLocal ==
    [][ \A w \in Workers :
          /\ (pc[w] = "Starting" /\ WState(pc'[w]) \notin {"Starting", "Playing"})
                => /\ pc'[w] = "Panicked"
                   /\ native'[w].stops = 0 /\ ~native'[w].playing
                   /\ native'[w].volume = <<>>
                   /\ UNCHANGED <<is_playing, is_volume_changed, volume, url>>
                   /\ UNCHANGED gui_pc
                   /\ \A x \in Workers \ {w} :
                         pc'[x] = pc[x] /\ native'[x] = native[x]
          /\ FailedInStarting(w)
                => /\ pc'[w] = pc[w] /\ native'[w] = native[w]
                   /\ (gui_pc = "idle" /\ obs.calls < MaxCalls)
                         => /\ ENABLED pause
                            /\ ENABLED (\E u \in UrlInputs : set_src(u))
                            /\ ENABLED (\E v \in VolumeInputs : set_volume(v))
                            /\ Cardinality(Spawned) < MaxWorkers => ENABLED play
      ]_vars

\* C17, reached: worker 1 failed in Starting, and the adapter went on: a
\* set_volume(30) was made and worker 2 runs its loop and has applied it.
C17_Witness ==
    /\ FailedInStarting(1)
    /\ native[1].stops = 0
    /\ WState(pc[2]) = "Playing"
    /\ native[2].volume = <<30>>
    /\ gui_pc = "idle"


C19_PendingVolumeSurvivesStop ==
    [][ /\ \A w \in Workers :
              /\ (pc[w] = "poll" /\ pc'[w] # "poll" /\ ~is_playing)
                    => /\ pc'[w] = "stop"
                       /\ native'[w] = native[w]
                       /\ UNCHANGED is_volume_changed
              /\ (WState(pc[w]) = "Stopping" /\ pc'[w] # pc[w])
                    => /\ native'[w].volume = native[w].volume
                       /\ UNCHANGED is_volume_changed
              /\ (obs.heir = w /\ pc[w] = "check_volume" /\ pc'[w] # pc[w])
                    => is_volume_changed /\ pc'[w] = "load_volume"
        /\ obs'.armed => is_volume_changed' /\ ActiveWorkers' = {}
        /\ obs'.heir # 0 => WState(pc'[obs'.heir]) \in {"Starting", "Playing"}
      ]_vars


C21_IconMatchesLastCommand ==
    /\ playing_icon \in {PlayGlyph, PauseGlyph}
    /\ playing_icon = PauseGlyph <=> media_player.last = "play"
    /\ playing_icon = PlayGlyph <=> media_player.last \in {"none", "pause"}
    /\ seen.event.kind = "station"
          => /\ seen.event.i <= Len(stations)
             /\ station_url = stations[seen.event.i]
             /\ media_player.sent = << <<"set_src", station_url>>,
                                       <<"pause">>, <<"play">> >>
             /\ media_player.src = station_url

\* C21, reached: the play button of the second station of the list was
\* clicked; the frame sent three commands, the icon is the pause glyph and
\* the last command is play().
C21_Witness ==
    /\ seen.event = [kind |-> "station", i |-> 2]
    /\ station_url = "https://a"
    /\ stations = <<"https://b", "https://a">>
    /\ playing_icon = PauseGlyph
    /\ media_player.last = "play"
    /\ Len(media_player.sent) = 3


\* C22: volume_on_slider and volume_before_mute are always in 0..100.  A
\* click on the volume icon with the slider at v, v not 0, saves v and puts
\* the slider at 0; the next click on the icon, when the slider was not
\* moved since, puts the slider back at exactly v; and every click on the
\* icon ends by giving the player the slider's new volume, as a fraction
\* of 100.
C22_MuteToggleRestores ==
    [][ /\ volume_on_slider \in SliderMin..SliderMax
        /\ volume_before_mute \in SliderMin..SliderMax
        /\ volume_on_slider' \in SliderMin..SliderMax
        /\ volume_before_mute' \in SliderMin..SliderMax
        /\ seen'.event.kind = "volume_icon"
              => /\ volume_on_slider # 0
                    => /\ volume_before_mute' = volume_on_slider
                       /\ volume_on_slider' = 0
                 /\ (volume_on_slider = 0 /\ seen.saved # <<>>)
                    => /\ volume_on_slider' = seen.saved[1]
                       /\ volume_on_slider' # 0
                 /\ media_player'.volume
                       = [num |-> volume_on_slider', den |-> 100]
                 /\ media_player'.sent
                       = << <<"set_volume",
                              [num |-> volume_on_slider', den |-> 100]>> >>
      ]_vars

\* C22, reached: the slider was at 30, the icon was clicked twice, and the
\* slider is back at 30 with the player given 30/100.
C22_Witness ==
    /\ seen.event.kind = "volume_icon"
    /\ seen.saved = <<>>
    /\ volume_on_slider = 30
    /\ volume_before_mute = 30
    /\ media_player.volume = [num |-> 30, den |-> 100]


\* The download is Done with a response that the match does not store:
\* Done(Err), or Done(Ok) with no text or with text that does not parse.
DoneFailure(d) ==
    /\ d.tag = "Done"
    /\ \/ ~d.response.ok
       \/ d.response.text = <<>>
       \/ from_str(d.response.text[1]) = <<>>

\* C23 without its last part: a frame in which a search was triggered
\* leaves the download InProgress, the fetch callback leaves it Done with
\* its response, and the stations list changes, or the download goes back
\* to None, only in a frame that found the download Done(Ok) with text that
\* parses, which stores the parsed list and sets the download to None.
DownloadSteps ==
    /\ seen'.event.kind = "search"
          => download' = DownloadInProgress /\ fetches' = fetches + 1
    /\ seen'.event.kind = "fetch_done"
          => download'.tag = "Done" /\ fetches' = fetches - 1
    /\ (stations' # stations \/ (download' = DownloadNone /\ download # download'))
          => /\ download.tag = "Done" /\ ~DoneFailure(download)
             /\ seen'.event.kind \notin {"search", "fetch_done"}
             /\ stations' = from_str(download.response.text[1])[1]
             /\ download' = DownloadNone
    /\ download.tag \in {"None", "InProgress"} \/ DoneFailure(download)
          => stations' = stations

\* C23: the steps of the download status as above, and a Done status that
\* is a failure stays as it is until a search is triggered.
C23_FailurePersistsUntilSearch ==
    [][ /\ DownloadSteps
        /\ (DoneFailure(download) /\ download' # download)
              => seen'.event.kind = "search"
      ]_vars

=============================================================================
